---- MODULE Spec2Model ----
(***************************************************************************)
(* A model of BitwardenDecrypt.py: the key derivation chain                *)
(* (getBitwardenSecrets), the three symmetric decryption routines, the RSA *)
(* unwrap of the organization keys and the vault walk of                   *)
(* decryptBitwardenJSON.                                                   *)
(*                                                                         *)
(* Cryptography is symbolic.  A byte string is a sequence of 32-byte       *)
(* blocks and a block is a term (a sequence of strings), so that a key     *)
(* derivation is an injective term constructor, a ciphertext names the key *)
(* it was produced under and a MAC names the key and the data it was       *)
(* computed over.  Python values are records [t, v] with t the Python type *)
(* and v the bytes (or the text, as one block).                            *)
(***************************************************************************)
EXTENDS Integers, Sequences, FiniteSets, TLC

\* ---------------------------------------------------------------- bounds
MaxKeys    == 2      \* top-level vault keys of an export
MaxRecords == 2      \* records stored under one top-level key

\* ---------------------------------------------------------- Python values
Bytes(b)  == [t |-> "bytes",   v |-> b]
Str(s)    == [t |-> "str",     v |-> << <<s>> >>]
None      == [t |-> "None",    v |-> <<>>]
Unbound   == [t |-> "unbound", v |-> <<>>]

\* b[m-1:n] on blocks; a Python slice never raises, it truncates.
Slice(b, m, n) ==
    LET hi == IF n < Len(b) THEN n ELSE Len(b)
    IN  IF m > hi THEN <<>> ELSE SubSeq(b, m, hi)

\* -------------------------------------------------------- key derivation
PBKDF2HMAC(password, salt) == << <<"PBKDF2", password, salt>> >>
HKDFExpand(key, info)      == << <<"HKDF", info>> \o key[1] >>

\* HMAC-SHA256 over iv || ciphertext
HMAC(mackey, iv, ciphertext) == [key |-> mackey, iv |-> iv, ct |-> ciphertext]

\* AES-256-CBC decryption; under another key the result is garbage.
Garbage == [pt |-> << <<"garbage">> >>, pad |-> FALSE]
AESCBCDecrypt(key, ciphertext) ==
    IF key = ciphertext.key
    THEN [pt |-> ciphertext.pt, pad |-> ciphertext.pad]
    ELSE Garbage

\* cleartext.decode('utf-8') succeeds on text only
IsUtf8(b) == Len(b) = 1 /\ b[1][1] = "text"

\* --------------------------------------------------- the export's secrets
Email       == "user@example.com"
UserId      == "U1"
GoodPw      == "correct horse"
Passwords   == {GoodPw, "tr0ub4dor"}

GoodMasterKey == PBKDF2HMAC(GoodPw, Email)
GoodStrEnc    == HKDFExpand(GoodMasterKey, "enc")
GoodStrMac    == HKDFExpand(GoodMasterKey, "mac")
UserSymKey    == << <<"GenEnc">>, <<"GenMac">> >>
UserEnc       == Slice(UserSymKey, 1, 1)
UserMac       == Slice(UserSymKey, 2, 2)
RsaDer        == << <<"RSA-DER">> >>
OrgSymKey(o)  == << <<"OrgEnc", o>>, <<"OrgMac", o>> >>

\* A symmetric CipherString "2.iv|ct|mac" as the fields it parses to.
MkCS(enckey, mackey, pt, pad) ==
    LET ct == [key |-> enckey, pt |-> pt, pad |-> pad]
    IN  [fmt |-> "ok", iv |-> "iv", ct |-> ct, mac |-> HMAC(mackey, "iv", ct)]
EmptyCS       == [MkCS(<<>>, <<>>, <<>>, FALSE) EXCEPT !.fmt = "empty"]
Malformed(cs) == [cs EXCEPT !.fmt = "bad"]
TamperMac(cs) == [cs EXCEPT !.mac.key = << <<"flipped">> >>]
TamperCt(cs)  == [cs EXCEPT !.ct.pt = << <<"flipped">> >>]

\* An asymmetric CipherString "4.ct"
MkRSA(der, pt) == [fmt |-> "ok", key |-> der, pt |-> pt]

Text(s) == << <<"text", s>> >>
Binary  == << <<"binary">> >>

\* ------------------------------------------------- results of a routine
\* kind: "return" (val), "raise" (an uncaught exception exc) or "exit"
\* (exit(1) after printing msg); aes: whether the AES cipher was run.
Ret(val, aes)   == [kind |-> "return", val |-> val,  exc |-> "",  msg |-> "",  aes |-> aes]
Raise(exc, aes) == [kind |-> "raise",  val |-> None, exc |-> exc, msg |-> "",  aes |-> aes]
Exit(msg, aes)  == [kind |-> "exit",   val |-> None, exc |-> "",  msg |-> msg, aes |-> aes]

MsgMasterMac == "ERROR: MAC did not match. Master Encryption Key was not decrypted."
MsgWrongPw   == "Wrong Password. Could Not Decode Protected Symmetric Key."
MsgRsaMac    == "ERROR: MAC did not match. RSA Private Key not decrypted."
MsgFieldMac  == "ERROR: MAC did not match. CipherString not decrypted."

\* decryptMasterEncryptionKey without the exit(1) after a MAC mismatch
decryptMasterEncryptionKey_NoExit(CipherString, masterkey, mastermac) ==
    IF CipherString.fmt # "ok" THEN Raise("ValueError", FALSE)
    ELSE LET decrypted == AESCBCDecrypt(masterkey, CipherString.ct)
         IN  IF ~decrypted.pad
             THEN Exit(MsgWrongPw, TRUE)
             ELSE Ret(Bytes(decrypted.pt), TRUE)

decryptMasterEncryptionKey(CipherString, masterkey, mastermac) ==
    IF CipherString.fmt # "ok" THEN Raise("ValueError", FALSE)
    ELSE LET calculatedMAC == HMAC(mastermac, CipherString.iv, CipherString.ct)
         IN  IF CipherString.mac # calculatedMAC
             THEN Exit(MsgMasterMac, FALSE)
             ELSE LET decrypted == AESCBCDecrypt(masterkey, CipherString.ct)
                  IN  IF ~decrypted.pad
                      THEN Exit(MsgWrongPw, TRUE)
                      ELSE Ret(Bytes(decrypted.pt), TRUE)

decryptRSAPrivateKey(CipherString, key, mackey) ==
    IF CipherString.fmt = "empty" THEN Ret(None, FALSE)
    ELSE IF CipherString.fmt # "ok" THEN Raise("ValueError", FALSE)
    ELSE LET calculatedMAC == HMAC(mackey, CipherString.iv, CipherString.ct)
         IN  IF CipherString.mac = calculatedMAC
             THEN LET decrypted == AESCBCDecrypt(key, CipherString.ct)
                  IN  IF ~decrypted.pad
                      THEN Raise("ValueError", TRUE)
                      ELSE Ret(Bytes(decrypted.pt), TRUE)
             ELSE Ret(Str(MsgRsaMac), FALSE)

\* decryptCipherString without the comparison of the MACs
decryptCipherString_NoMacCheck(CipherString, key, mackey) ==
    IF CipherString.fmt = "empty" THEN Ret(None, FALSE)
    ELSE IF CipherString.fmt # "ok" THEN Raise("IndexError", FALSE)
    ELSE LET decrypted == AESCBCDecrypt(key, CipherString.ct)
         IN  IF ~decrypted.pad
             THEN Raise("ValueError", TRUE)
             ELSE IF ~IsUtf8(decrypted.pt)
             THEN Raise("UnicodeDecodeError", TRUE)
             ELSE Ret(Str(decrypted.pt[1][2]), TRUE)

decryptCipherString(CipherString, key, mackey) ==
    IF CipherString.fmt = "empty" THEN Ret(None, FALSE)
    ELSE IF CipherString.fmt # "ok" THEN Raise("IndexError", FALSE)
    ELSE LET calculatedMAC == HMAC(mackey, CipherString.iv, CipherString.ct)
         IN  IF CipherString.mac = calculatedMAC
             THEN LET decrypted == AESCBCDecrypt(key, CipherString.ct)
                  IN  IF ~decrypted.pad
                      THEN Raise("ValueError", TRUE)
                      ELSE IF ~IsUtf8(decrypted.pt)
                      THEN Raise("UnicodeDecodeError", TRUE)
                      ELSE Ret(Str(decrypted.pt[1][2]), TRUE)
             ELSE Ret(Str(MsgFieldMac), FALSE)

\* load_der_private_key accepts DER bytes only; OAEP decryption succeeds
\* under the private key the payload was wrapped for.
decryptRSA(CipherString, key) ==
    IF CipherString.fmt # "ok" THEN Raise("ValueError", FALSE)
    ELSE IF key.t # "bytes" THEN Raise("TypeError", FALSE)
    ELSE IF key.v # RsaDer THEN Raise("ValueError", FALSE)
    ELSE IF key.v # CipherString.key THEN Raise("ValueError", FALSE)
    ELSE Ret(Bytes(CipherString.pt), FALSE)

\* ------------------------------------------------------ JSON of a record
\* A record is the ordered list of its fields (json.dumps keeps the order);
\* a value is a plain string, null, or a string of CipherString shape, the
\* shape regexPattern matches.
JStr(s)  == [t |-> "str",  s |-> s,  cs |-> EmptyCS]
JNull    == [t |-> "null", s |-> "", cs |-> EmptyCS]
JCS(cs)  == [t |-> "cs",   s |-> "", cs |-> cs]
Field(k, v) == [k |-> k, v |-> v]

RECURSIVE findall(_)
\* regexPattern.findall(tempString): the matches, in text order
findall(fields) ==
    IF fields = <<>> THEN <<>>
    ELSE IF Head(fields).v.t = "cs"
         THEN <<Head(fields).v.cs>> \o findall(Tail(fields))
         ELSE findall(Tail(fields))

\* tempString.replace(match, jsonEscapedString)
replace(fields, match, text) ==
    [i \in 1..Len(fields) |->
        IF fields[i].v.t = "cs" /\ fields[i].v.cs = match
        THEN Field(fields[i].k, JStr(text))
        ELSE fields[i]]

\* tempString.replace('"userId": "<id>",', ""): the text to remove ends with
\* the comma that follows the pair, which the last pair of an object lacks.
removeUserId(fields, uid) ==
    LET hits == {i \in 1..Len(fields) :
                    /\ fields[i].k = "userId"
                    /\ fields[i].v = JStr(uid)
                    /\ i < Len(fields)}
    IN  IF hits = {} THEN fields
        ELSE LET i == CHOOSE j \in hits : TRUE
             IN  SubSeq(fields, 1, i - 1) \o SubSeq(fields, i + 1, Len(fields))

\* Lines 290-296: the key pair after the try/except on organizationId.
\* A missing organizationId (KeyError), a null one (TypeError) and an id
\* without an entry in OrgSecrets (KeyError) reach the except clause; an
\* empty string passes the try with no assignment.
SelectKeys(groupItem, encKey, macKey, secrets) ==
    LET orgs == {i \in 1..Len(groupItem) : groupItem[i].k = "organizationId"}
        user == [enc |-> secrets.GeneratedEncryptionKey,
                 mac |-> secrets.GeneratedMACKey]
    IN  IF orgs = {} THEN user
        ELSE LET v == groupItem[CHOOSE i \in orgs : TRUE].v
             IN  IF v.t # "str" THEN user
                 ELSE IF v.s # ""
                 THEN IF v.s \in DOMAIN secrets.OrgSecrets
                      THEN [enc |-> Bytes(Slice(secrets.OrgSecrets[v.s].v, 1, 1)),
                            mac |-> Bytes(Slice(secrets.OrgSecrets[v.s].v, 2, 2))]
                      ELSE user
                 ELSE [enc |-> encKey, mac |-> macKey]

NoEntry == [idx |-> 0, dict |-> FALSE, fields |-> <<>>]
Call(fn, entry, cs, key, mackey, r) ==
    [fn |-> fn, entry |-> entry, cs |-> cs, key |-> key, mackey |-> mackey,
     aes |-> r.aes, kind |-> r.kind, val |-> r.val]

RECURSIVE MatchLoop(_, _, _, _, _, _, _)
\* Lines 298-305: the loop over the matches of one record.
MatchLoop(matches, tempString, encKey, macKey, df, entry, log) ==
    IF matches = <<>>
    THEN [kind |-> "return", exc |-> "", where |-> "", temp |-> tempString, log |-> log]
    ELSE IF encKey.t = "unbound"
    THEN [kind |-> "raise", exc |-> "UnboundLocalError", where |-> "decryptBitwardenJSON:299",
          temp |-> tempString, log |-> log]
    ELSE LET match == Head(matches)
             r     == decryptCipherString(match, encKey.v, macKey.v)
             log2  == log \cup {Call("decryptCipherString", entry, match, encKey.v, macKey.v, r)}
         IN  IF r.kind = "raise"
             THEN [kind |-> "raise", exc |-> r.exc, where |-> "decryptCipherString",
                   temp |-> tempString, log |-> log2]
             ELSE LET spliced == replace(tempString, match, r.val.v[1][1])
                  IN  IF "userId" \notin df.present
                      THEN [kind |-> "raise", exc |-> "KeyError",
                            where |-> "decryptBitwardenJSON:304",
                            temp |-> spliced, log |-> log2]
                      ELSE MatchLoop(Tail(matches), removeUserId(spliced, df.userId),
                                     encKey, macKey, df, entry, log2)

\* Lines 265-274
GroupOf(a) ==
    IF a[1] = "folders_" THEN "folders"
    ELSE IF a[1] = "ciphers_" THEN "items"
    ELSE IF a[1] = "organizations_" THEN "organizations"
    ELSE IF a[1] = "collections_" THEN "collections"
    ELSE "None"

\* ------------------------------------------------------------ the inputs
\* Sequences over S of length lo..hi
SeqsOf(S, lo, hi) == UNION {[1..n -> S] : n \in lo..hi}

RequiredFields == {"userEmail", "kdfIterations", "encKey", "encPrivateKey",
                   "encOrgKeys", "userId"}

GoodEncKey     == MkCS(GoodStrEnc, GoodStrMac, UserSymKey, TRUE)
EncKeys        == {GoodEncKey, TamperMac(GoodEncKey), TamperCt(GoodEncKey),
                   MkCS(GoodStrEnc, GoodStrMac, UserSymKey, FALSE),
                   Malformed(GoodEncKey)}
GoodPrivateKey == MkCS(UserEnc, UserMac, RsaDer, TRUE)
PrivateKeys    == {GoodPrivateKey, EmptyCS, TamperMac(GoodPrivateKey),
                   MkCS(UserEnc, UserMac, RsaDer, FALSE)}
OrgEntry(o, cs) == [id |-> o, cs |-> cs]
GoodOrgKeys    == <<OrgEntry("org1", MkRSA(RsaDer, OrgSymKey("org1")))>>
OrgKeyLists    == {<<>>, GoodOrgKeys,
                   <<OrgEntry("org1", MkRSA(<< <<"RSA-DER", "other">> >>, OrgSymKey("org1")))>>}

\* The fields of a record, from its shape: where the userId pair stands,
\* what organizationId holds, and which CipherStrings follow.
FieldCS(org, c) ==
    LET enc  == IF org = "org1" THEN Slice(OrgSymKey(org), 1, 1) ELSE UserEnc
        mac  == IF org = "org1" THEN Slice(OrgSymKey(org), 2, 2) ELSE UserMac
        good == MkCS(enc, mac, Text("secret"), TRUE)
    IN  CASE c = "good"      -> good
          [] c = "tampered"  -> TamperCt(good)
          [] c = "badpad"    -> MkCS(enc, mac, Text("secret"), FALSE)
          [] c = "malformed" -> Malformed(good)
          [] c = "binary"    -> MkCS(enc, mac, Binary, TRUE)

FieldNames == <<"name", "notes">>
RecordFields(uid, org, cs) ==
    (IF uid = "first" THEN <<Field("userId", JStr(UserId))>> ELSE <<>>)
    \o <<Field("id", JStr("id"))>>
    \o (CASE org = "absent" -> <<>>
          [] org = "null"   -> <<Field("organizationId", JNull)>>
          [] OTHER          -> <<Field("organizationId", JStr(org))>>)
    \o [i \in 1..Len(cs) |-> Field(FieldNames[i], JCS(FieldCS(org, cs[i])))]
    \o (IF uid = "last" THEN <<Field("userId", JStr(UserId))>> ELSE <<>>)

UidShapes == {"first", "last", "none"}
OrgShapes == {"absent", "null", "", "org1", "org2"}
CsShapes  == {<<"good">>, <<>>, <<"tampered">>, <<"badpad">>, <<"malformed">>,
              <<"binary">>, <<"tampered", "good">>, <<"badpad", "good">>}

\* The record shapes that differ from the base shape in at most one place.
Shapes ==
    {sh \in UidShapes \X OrgShapes \X CsShapes :
        Cardinality({i \in 1..3 : sh[i] # <<"first", "absent", <<"good">>>>[i]}) <= 1}

Entry(idx, dict, fields) == [idx |-> idx, dict |-> dict, fields |-> fields]
\* The values stored under the outer indices of a group: record objects,
\* and a value that is no object.
Values == {[dict |-> TRUE, fields |-> RecordFields(sh[1], sh[2], sh[3])] : sh \in Shapes}
          \cup {[dict |-> FALSE, fields |-> <<>>]}
Entries(vals) == [i \in 1..Len(vals) |-> Entry(i, vals[i].dict, vals[i].fields)]

BaseValue  == [dict |-> TRUE, fields |-> RecordFields("first", "absent", <<"good">>)]
OrgValue   == [dict |-> TRUE, fields |-> RecordFields("first", "org1", <<"good">>)]
TopKey(a, entries) == [a |-> a, entries |-> entries]
BaseVault  == <<TopKey(<<"folders_", "A">>, Entries(<<BaseValue>>)),
                TopKey(<<"ciphers_", "A">>, Entries(<<BaseValue, OrgValue>>))>>

KeyNames == {<<"folders_", "A">>, <<"folders_", "B">>, <<"ciphers_", "A">>,
             <<"organizations_", "A">>, <<"collections_", "A">>, <<"profile_", "A">>}

Datafile(present, encKey, encPrivateKey, encOrgKeys, vault) ==
    [present |-> present, userEmail |-> Email, userId |-> UserId,
     encKey |-> encKey, encPrivateKey |-> encPrivateKey,
     encOrgKeys |-> encOrgKeys, vault |-> vault]

\* Exports that vary the key chain, over a fixed vault.
ChainExports ==
    {Datafile(RequiredFields \ m, k, p, o, BaseVault) :
        m \in {{}} \cup {{f} : f \in RequiredFields},
        k \in EncKeys, p \in PrivateKeys, o \in OrgKeyLists}

\* Exports that vary the records of one group, over a sound key chain.
RecordExports ==
    {Datafile(RequiredFields, GoodEncKey, GoodPrivateKey, GoodOrgKeys,
              <<TopKey(<<"ciphers_", "A">>, Entries(vals))>>) :
        vals \in SeqsOf(Values, 1, MaxRecords)}

\* Exports that vary the top-level keys, over a sound key chain.
KeyExports ==
    {Datafile(RequiredFields, GoodEncKey, GoodPrivateKey, GoodOrgKeys,
              [i \in 1..Len(ks) |-> TopKey(ks[i], Entries([j \in 1..ns[i] |-> BaseValue]))]) :
        <<ks, ns>> \in
            {kn \in SeqsOf(KeyNames, 0, MaxKeys) \X SeqsOf(0..MaxRecords, 0, MaxKeys) :
                /\ Len(kn[1]) = Len(kn[2])
                /\ \A i, j \in 1..Len(kn[1]) : i # j => kn[1][i] # kn[1][j]}}

\* ------------------------------------------------------------- the state
VARIABLES
    datafile,          \* the parsed export (json.load)
    password,          \* what getpass returned
    pc,                \* where the run stands
    BitwardenSecrets,  \* the key bundle
    orgTodo,           \* the entries of encOrgKeys the loop has yet to visit
    a, b,              \* positions of the loops over datafile and groupData
    groupItemsList,
    decryptedEntries,
    encKey, macKey,    \* locals of decryptBitwardenJSON, kept across records
    output,            \* the documents main printed
    stdout,            \* the messages the routines printed
    exitCode,
    error,             \* the uncaught exception that ended the run
    ran,               \* the steps that have started
    calls              \* the calls of the symmetric routines, with outcomes

vars == <<datafile, password, pc, BitwardenSecrets, orgTodo, a, b, groupItemsList,
          decryptedEntries, encKey, macKey, output, stdout, exitCode, error, ran, calls>>

NoError  == [exc |-> "", where |-> ""]
NoFun    == [x \in {} |-> <<>>]
NoSecrets ==
    [MasterKey |-> Unbound, StretchedEncryptionKey |-> Unbound,
     StretchedMacKey |-> Unbound, GeneratedSymmetricKey |-> Unbound,
     GeneratedEncryptionKey |-> Unbound, GeneratedMACKey |-> Unbound,
     RSAPrivateKey |-> Unbound, OrgSecrets |-> NoFun]

InitWith(exports) ==
    /\ datafile \in exports
    /\ password = ""
    /\ pc = "start"
    /\ BitwardenSecrets = NoSecrets
    /\ orgTodo = <<>>
    /\ a = 1 /\ b = 1
    /\ groupItemsList = <<>>
    /\ decryptedEntries = NoFun
    /\ encKey = Unbound /\ macKey = Unbound
    /\ output = <<>>
    /\ stdout = <<>>
    /\ exitCode = 0
    /\ error = NoError
    /\ ran = {}
    /\ calls = {}

Init == InitWith(ChainExports \cup RecordExports \cup KeyExports)

\* An uncaught exception: the interpreter prints the traceback and exits 1.
Abort(exc, where) ==
    /\ pc' = "aborted"
    /\ exitCode' = 1
    /\ error' = [exc |-> exc, where |-> where]

\* ------------------------------------------------------- key derivation
\* Lines 245-249: the arguments of getBitwardenSecrets are read.
ReadInputs ==
    /\ pc = "start"
    /\ \E pw \in Passwords : password' = pw
    /\ IF {"userEmail", "kdfIterations", "encKey", "encPrivateKey"} \subseteq datafile.present
       THEN pc' = "kdf" /\ UNCHANGED <<exitCode, error>>
       ELSE Abort("KeyError", "decryptBitwardenJSON:245")
    /\ UNCHANGED <<datafile, BitwardenSecrets, orgTodo, a, b, groupItemsList,
                   decryptedEntries, encKey, macKey, output, stdout, ran, calls>>

\* Lines 58-106
DeriveKeys ==
    /\ pc = "kdf"
    /\ LET MasterKey == PBKDF2HMAC(password, datafile.userEmail)
       IN  BitwardenSecrets' =
             [BitwardenSecrets EXCEPT
                !.MasterKey = Bytes(MasterKey),
                !.StretchedEncryptionKey = Bytes(HKDFExpand(MasterKey, "enc")),
                !.StretchedMacKey = Bytes(HKDFExpand(MasterKey, "mac"))]
    /\ ran' = ran \cup {"PBKDF2", "HKDF"}
    /\ pc' = "unwrapSym"
    /\ UNCHANGED <<datafile, password, orgTodo, a, b, groupItemsList, decryptedEntries,
                   encKey, macKey, output, stdout, exitCode, error, calls>>

\* Lines 108-113
UnwrapSymmetricKey ==
    /\ pc = "unwrapSym"
    /\ LET r == decryptMasterEncryptionKey(datafile.encKey,
                                           BitwardenSecrets.StretchedEncryptionKey.v,
                                           BitwardenSecrets.StretchedMacKey.v)
       IN  /\ calls' = calls \cup
                 {Call("decryptMasterEncryptionKey", NoEntry, datafile.encKey,
                       BitwardenSecrets.StretchedEncryptionKey.v,
                       BitwardenSecrets.StretchedMacKey.v, r)}
           /\ CASE r.kind = "return" ->
                     /\ BitwardenSecrets' =
                          [BitwardenSecrets EXCEPT
                             !.GeneratedSymmetricKey = r.val,
                             !.GeneratedEncryptionKey = Bytes(Slice(r.val.v, 1, 1)),
                             !.GeneratedMACKey = Bytes(Slice(r.val.v, 2, 2))]
                     /\ pc' = "unwrapRSA"
                     /\ UNCHANGED <<stdout, exitCode, error>>
                [] r.kind = "exit" ->
                     /\ stdout' = Append(stdout, r.msg)
                     /\ pc' = "aborted"
                     /\ exitCode' = 1
                     /\ UNCHANGED <<BitwardenSecrets, error>>
                [] r.kind = "raise" ->
                     /\ Abort(r.exc, "decryptMasterEncryptionKey")
                     /\ UNCHANGED <<BitwardenSecrets, stdout>>
    /\ ran' = ran \cup {"decryptMasterEncryptionKey"}
    /\ UNCHANGED <<datafile, password, orgTodo, a, b, groupItemsList, decryptedEntries,
                   encKey, macKey, output>>

\* Lines 116-120
UnwrapRSAPrivateKey ==
    /\ pc = "unwrapRSA"
    /\ LET r == decryptRSAPrivateKey(datafile.encPrivateKey,
                                     BitwardenSecrets.GeneratedEncryptionKey.v,
                                     BitwardenSecrets.GeneratedMACKey.v)
       IN  /\ calls' = calls \cup
                 {Call("decryptRSAPrivateKey", NoEntry, datafile.encPrivateKey,
                       BitwardenSecrets.GeneratedEncryptionKey.v,
                       BitwardenSecrets.GeneratedMACKey.v, r)}
           /\ IF r.kind = "return"
              THEN /\ BitwardenSecrets' = [BitwardenSecrets EXCEPT !.RSAPrivateKey = r.val]
                   /\ pc' = "orgList"
                   /\ UNCHANGED <<exitCode, error>>
              ELSE /\ Abort(r.exc, "decryptRSAPrivateKey")
                   /\ UNCHANGED BitwardenSecrets
    /\ ran' = ran \cup {"decryptRSAPrivateKey"}
    /\ UNCHANGED <<datafile, password, orgTodo, a, b, groupItemsList, decryptedEntries,
                   encKey, macKey, output, stdout>>

\* Lines 254-255
ListOrgKeys ==
    /\ pc = "orgList"
    /\ IF "encOrgKeys" \in datafile.present
       THEN /\ orgTodo' = datafile.encOrgKeys
            /\ pc' = "orgLoop"
            /\ UNCHANGED <<exitCode, error>>
       ELSE /\ Abort("KeyError", "decryptBitwardenJSON:255")
            /\ UNCHANGED orgTodo
    /\ UNCHANGED <<datafile, password, BitwardenSecrets, a, b, groupItemsList,
                   decryptedEntries, encKey, macKey, output, stdout, ran, calls>>

\* Lines 257-258, one iteration
UnwrapOrgKey ==
    /\ pc = "orgLoop"
    /\ orgTodo # <<>>
    /\ LET i == Head(orgTodo)
           r == decryptRSA(i.cs, BitwardenSecrets.RSAPrivateKey)
       IN  IF r.kind = "return"
           THEN /\ BitwardenSecrets' =
                     [BitwardenSecrets EXCEPT !.OrgSecrets =
                         [o \in DOMAIN @ \cup {i.id} |-> IF o = i.id THEN r.val ELSE @[o]]]
                /\ orgTodo' = Tail(orgTodo)
                /\ UNCHANGED <<pc, exitCode, error>>
           ELSE /\ Abort(r.exc, "decryptRSA")
                /\ UNCHANGED <<BitwardenSecrets, orgTodo>>
    /\ ran' = ran \cup {"decryptRSA"}
    /\ UNCHANGED <<datafile, password, a, b, groupItemsList, decryptedEntries,
                   encKey, macKey, output, stdout, calls>>

\* ------------------------------------------------------------ vault walk
\* Lines 261-279: the next top-level key of datafile
TopLevelKey ==
    /\ \/ pc = "orgLoop" /\ orgTodo = <<>>
       \/ pc = "walk"
    /\ a <= Len(datafile.vault)
    /\ IF GroupOf(datafile.vault[a].a) # "None"
       THEN /\ groupItemsList' = <<>>
            /\ b' = 1
            /\ pc' = "records"
            /\ a' = a
       ELSE /\ a' = a + 1
            /\ pc' = "walk"
            /\ UNCHANGED <<b, groupItemsList>>
    /\ ran' = ran \cup {"walk"}
    /\ UNCHANGED <<datafile, password, BitwardenSecrets, orgTodo, decryptedEntries,
                   encKey, macKey, output, stdout, exitCode, error, calls>>

\* Lines 281-307: one entry of groupData
ProcessRecord ==
    /\ pc = "records"
    /\ b <= Len(datafile.vault[a].entries)
    /\ LET c == datafile.vault[a].entries[b]
       IN  IF ~c.dict
           THEN /\ b' = b + 1
                /\ UNCHANGED <<pc, groupItemsList, encKey, macKey, exitCode, error, calls>>
           ELSE LET keys == SelectKeys(c.fields, encKey, macKey, BitwardenSecrets)
                    r    == MatchLoop(findall(c.fields), c.fields, keys.enc, keys.mac,
                                      datafile, c, {})
                IN  /\ encKey' = keys.enc
                    /\ macKey' = keys.mac
                    /\ calls' = calls \cup r.log
                    /\ IF r.kind = "return"
                       THEN /\ groupItemsList' =
                                 Append(groupItemsList,
                                        [src |-> <<datafile.vault[a].a, c.idx>>,
                                         fields |-> r.temp])
                            /\ b' = b + 1
                            /\ UNCHANGED <<pc, exitCode, error>>
                       ELSE /\ Abort(r.exc, r.where)
                            /\ UNCHANGED <<b, groupItemsList>>
    /\ UNCHANGED <<datafile, password, BitwardenSecrets, orgTodo, a, decryptedEntries,
                   output, stdout, ran>>

\* Line 309
StoreGroup ==
    /\ pc = "records"
    /\ b > Len(datafile.vault[a].entries)
    /\ LET group == GroupOf(datafile.vault[a].a)
       IN  decryptedEntries' =
             [g \in DOMAIN decryptedEntries \cup {group} |->
                 IF g = group THEN groupItemsList ELSE decryptedEntries[g]]
    /\ a' = a + 1
    /\ pc' = "walk"
    /\ UNCHANGED <<datafile, password, BitwardenSecrets, orgTodo, b, groupItemsList,
                   encKey, macKey, output, stdout, exitCode, error, ran, calls>>

\* Lines 311 and 320-321
Return ==
    /\ \/ pc = "orgLoop" /\ orgTodo = <<>>
       \/ pc = "walk"
    /\ a > Len(datafile.vault)
    /\ output' = Append(output, decryptedEntries)
    /\ pc' = "done"
    /\ ran' = ran \cup {"walk"}
    /\ UNCHANGED <<datafile, password, BitwardenSecrets, orgTodo, a, b, groupItemsList,
                   decryptedEntries, encKey, macKey, stdout, exitCode, error, calls>>

Next ==
    \/ ReadInputs
    \/ DeriveKeys
    \/ UnwrapSymmetricKey
    \/ UnwrapRSAPrivateKey
    \/ ListOrgKeys
    \/ UnwrapOrgKey
    \/ TopLevelKey
    \/ ProcessRecord
    \/ StoreGroup
    \/ Return

Spec == Init /\ [][Next]_vars

\* ================================================================ claims
Range(f) == {f[x] : x \in DOMAIN f}

\* The unwrap of the protected symmetric key fails: the stored MAC differs
\* from the MAC under the stretched MAC key, or the padding is wrong.
MacMismatch(cs, mackey) == cs.fmt = "ok" /\ cs.mac # HMAC(mackey, cs.iv, cs.ct)
PaddingError(cs, key)   == cs.fmt = "ok" /\ ~AESCBCDecrypt(key, cs.ct).pad
SymUnwrapFailed ==
    /\ "decryptMasterEncryptionKey" \in ran
    /\ \/ MacMismatch(datafile.encKey, BitwardenSecrets.StretchedMacKey.v)
       \/ PaddingError(datafile.encKey, BitwardenSecrets.StretchedEncryptionKey.v)

\* The records emitted so far
Emitted ==
    Range(groupItemsList) \cup UNION {Range(decryptedEntries[g]) : g \in DOMAIN decryptedEntries}

\* The key pair the claim C1 assigns to a record
KeyPairFor(fields, secrets) ==
    LET orgs == {i \in 1..Len(fields) : fields[i].k = "organizationId"}
        v    == fields[CHOOSE i \in orgs : TRUE].v
    IN  IF orgs # {} /\ v.t = "str" /\ v.s # "" /\ v.s \in DOMAIN secrets.OrgSecrets
        THEN <<Slice(secrets.OrgSecrets[v.s].v, 1, 1), Slice(secrets.OrgSecrets[v.s].v, 2, 2)>>
        ELSE <<secrets.GeneratedEncryptionKey.v, secrets.GeneratedMACKey.v>>

\* C1: every field of every record is decrypted with the key pair that the
\* record and the key bundle determine: the organization's halves for a
\* non-empty organizationId known to OrgSecrets, the user's keys otherwise,
\* whatever records came before.
C1_KeyPairOfRecord ==
    \A c \in calls :
        c.fn = "decryptCipherString" =>
            <<c.key, c.mackey>> = KeyPairFor(c.entry.fields, BitwardenSecrets)

\* C2: no emitted record has a userId key.
C2_NoUserIdEmitted ==
    \A r \in Emitted : \A i \in 1..Len(r.fields) : r.fields[i].k # "userId"

\* C3: once the unwrap of the protected symmetric key has failed (MAC
\* mismatch or padding error), the run has ended with a non-zero exit, the
\* RSA private key unwrap, the organization key unwraps and the vault walk
\* have not started, and no document was produced.
C3_WrongPasswordStops ==
    SymUnwrapFailed =>
        /\ pc = "aborted"
        /\ exitCode # 0
        /\ ran \cap {"decryptRSAPrivateKey", "decryptRSA", "walk"} = {}
        /\ BitwardenSecrets.GeneratedSymmetricKey = Unbound
        /\ BitwardenSecrets.RSAPrivateKey = Unbound
        /\ output = <<>>
C3_Witness ==
    /\ SymUnwrapFailed
    /\ password # GoodPw
    /\ pc = "aborted"

\* C4: a failed unwrap of the protected symmetric key is reported as the
\* wrong-password outcome, whether the MAC or the padding was wrong.
C4_OneWrongPasswordOutcome ==
    SymUnwrapFailed => stdout = <<MsgWrongPw>>

\* C5: a field that fails to decrypt during the vault walk never ends the
\* run.
C5_FieldFailureContained ==
    ~(pc = "aborted" /\ error.where = "decryptCipherString")

\* C6: when the RSA private key is unavailable (absent, empty, or its MAC
\* does not match) and the export is otherwise sound and the password
\* right, the run does not abort.
RSAKeyUnavailable ==
    \/ "encPrivateKey" \notin datafile.present
    \/ datafile.encPrivateKey.fmt = "empty"
    \/ MacMismatch(datafile.encPrivateKey, UserMac)
C6_RunSurvivesMissingRSAKey ==
    ( /\ RSAKeyUnavailable
      /\ password = GoodPw
      /\ datafile.encKey = GoodEncKey
      /\ RequiredFields \ {"encPrivateKey"} \subseteq datafile.present )
    => pc # "aborted"

\* C7: every unwrapped entry of the key bundle is absent or the cleartext
\* of an unwrap that succeeded, and decryptRSA never runs on anything else.
C7_BundleHoldsOnlyUnwrappedKeys ==
    /\ BitwardenSecrets.GeneratedSymmetricKey \in {Unbound, Bytes(datafile.encKey.ct.pt)}
    /\ BitwardenSecrets.RSAPrivateKey \in {Unbound, None, Bytes(datafile.encPrivateKey.ct.pt)}
    /\ BitwardenSecrets.RSAPrivateKey.t = "bytes" =>
          ~MacMismatch(datafile.encPrivateKey, BitwardenSecrets.GeneratedMACKey.v)
    /\ \A o \in DOMAIN BitwardenSecrets.OrgSecrets :
          BitwardenSecrets.OrgSecrets[o].t = "bytes"

RECURSIVE ExpectedSources(_, _)
\* The record objects under the keys of one group, in traversal order
ExpectedSources(vault, group) ==
    IF vault = <<>> THEN <<>>
    ELSE (IF GroupOf(Head(vault).a) = group
          THEN LET es == SelectSeq(Head(vault).entries, LAMBDA e : e.dict)
               IN  [i \in 1..Len(es) |-> <<Head(vault).a, es[i].idx>>]
          ELSE <<>>)
         \o ExpectedSources(Tail(vault), group)
SourcesOf(doc, group) ==
    IF group \in DOMAIN doc THEN [i \in 1..Len(doc[group]) |-> doc[group][i].src] ELSE <<>>
Groups == {"folders", "items", "organizations", "collections"}

\* C8: the document returned lists, under each group name, every record
\* object under every top-level key of that group's prefix, once and in
\* traversal order, and nothing else.
C8_OutputListsEveryRecord ==
    pc = "done" =>
        /\ DOMAIN output[1] \subseteq Groups
        /\ \A g \in Groups : SourcesOf(output[1], g) = ExpectedSources(datafile.vault, g)

\* C9: when a required field (userEmail, kdfIterations, encKey, userId) is
\* absent, no key-derivation step runs.
C9_MissingInputBeforeKdf ==
    ~({"userEmail", "kdfIterations", "encKey", "userId"} \subseteq datafile.present)
        => ran = {}

\* C10: a symmetric routine called on a CipherString whose stored MAC
\* differs from the computed one does not run the cipher and yields the
\* routine's MAC-mismatch outcome.
C10_MacBeforeCipher ==
    \A c \in calls :
        MacMismatch(c.cs, c.mackey) =>
            /\ ~c.aes
            /\ CASE c.fn = "decryptMasterEncryptionKey" ->
                      c.kind = "exit" /\ stdout = <<MsgMasterMac>>
                 [] c.fn = "decryptRSAPrivateKey" ->
                      c.kind = "return" /\ c.val = Str(MsgRsaMac)
                 [] c.fn = "decryptCipherString" ->
                      c.kind = "return" /\ c.val = Str(MsgFieldMac)
C10_Witness ==
    /\ \E c \in calls : c.fn = "decryptCipherString" /\ MacMismatch(c.cs, c.mackey)
    /\ \E c \in calls : c.fn = "decryptRSAPrivateKey" /\ c.aes
    /\ pc = "done"

====
